---------------------------- MODULE Spec2Model ----------------------------
(***************************************************************************)
(* Model of kylehtet/color-analyzer: the undertone classifier              *)
(* (src/color_analyzer.py), its palette and outfit tables, and the         *)
(* /analyze request handler (src/app.py).                                  *)
(*                                                                         *)
(* Three specifications share the module:                                  *)
(*   SpecClassify  detect_undertone, statement by statement, on one grid   *)
(*   SpecLookup    get_color_palette and get_outfit_suggestions            *)
(*   Spec          the /analyze handler, several requests interleaved      *)
(***************************************************************************)
EXTENDS Integers, Sequences, FiniteSets, TLC

VARIABLES
    \* ---- detect_undertone, one call (SpecClassify)
    img_rgb,        \* the argument: the pixels of the grid, row-major, <<R,G,B>>
    dpc,            \* position in detect_undertone
    skin_pixels,    \* line 69, NoValue until assigned
    avg,            \* lines 75-77: [r, g, b] of binary64 values, NoAverages before
    cool_tested,    \* whether the elif test of line 85 was evaluated
    ret,            \* the returned string, "raised" for an exception, NoValue before
    \* ---- the lookups (SpecLookup)
    lk_undertone, lk_style, lk_formality,   \* the arguments
    lk_colors,      \* result of get_color_palette, NoValue before the call
    lk_outfits,     \* result of get_outfit_suggestions, NoValue before the call
    \* ---- the /analyze handler (Spec)
    req,            \* req[r]: the request's form fields and upload
    pc,             \* pc[r]: position of request r in analyze()
    files,          \* the temporary directory: a function from the names of the
                    \* files that exist to [owner, data]
    temp_file,      \* temp_file.name of request r's NamedTemporaryFile, NoName before
    temp_path,      \* the local variable temp_path of request r, NoName before line 65
    content,        \* the local variable content of request r
    pending,        \* the response the try block of request r has decided on
    resp,           \* the HTTP response of request r, NoResponse until it finishes
    fault,          \* the failure request r met outside its inputs, NoFault if none
    trace           \* trace[r]: what request r has read, called and touched so far

classifyVars == <<img_rgb, dpc, skin_pixels, avg, cool_tested, ret>>
lookupVars   == <<lk_undertone, lk_style, lk_formality, lk_colors, lk_outfits>>
handlerVars  == <<req, pc, files, temp_file, temp_path, content, pending, resp, fault, trace>>
vars == <<classifyVars, lookupVars, handlerVars>>

NoValue == "None"
NoAverages == <<>>

(***************************************************************************)
(* Bounds of the model.                                                    *)
(***************************************************************************)
MaxPixels == 3      \* longest pixel grid classified in SpecClassify
NumReqs   == 2      \* /analyze requests in flight in Spec

(***************************************************************************)
(* IEEE-754 binary64 arithmetic, as far as detect_undertone uses it.       *)
(* np.mean sums the uint8 column exactly in float64 and divides by the     *)
(* count; the thresholds are added in float64.  A value v >= 32 is held    *)
(* as [i, h, l] = i + (h * 2^24 + l) / 2^48: every binary64 value in       *)
(* [32, 512) is a multiple of 2^-47, so the representation is exact.       *)
(***************************************************************************)
Limb == 4096 * 4096    \* 2^24

\* Number of low bits of the 48-bit fraction a binary64 in i's binade drops.
DropBits(i) ==
    IF i < 64 THEN 1 ELSE IF i < 128 THEN 2 ELSE IF i < 256 THEN 3 ELSE 4

Pow2(d) == IF d = 1 THEN 2 ELSE IF d = 2 THEN 4 ELSE IF d = 3 THEN 8 ELSE 16

\* Round i + (h*2^24 + l)/2^48 (+ something below 2^-48 when sticky) to the
\* nearest binary64, ties to even.
FRound(i, h, l, sticky) ==
    LET m    == Pow2(DropBits(i))
        kept == l \div m
        rem  == l % m
        half == m \div 2
        up   == \/ rem > half
                \/ rem = half /\ (sticky \/ kept % 2 = 1)
        l1   == (kept + (IF up THEN 1 ELSE 0)) * m
        h1   == IF l1 = Limb THEN h + 1 ELSE h
    IN  [i |-> IF h1 = Limb THEN i + 1 ELSE i,
         h |-> IF h1 = Limb THEN 0 ELSE h1,
         l |-> IF l1 = Limb THEN 0 ELSE l1]

\* float64(s) / float64(n) for integers s >= 32 * n, 1 <= n < 128 (a selected
\* pixel has every channel >= 40, so every column mean is >= 40).
FDiv(s, n) ==
    LET q  == s \div n
        t1 == (s % n) * Limb
        t2 == (t1 % n) * Limb
    IN  FRound(q, t1 \div n, t2 \div n, (t2 % n) # 0)

\* a + float64(c) for a small non-negative integer c.
FAdd(a, c) == FRound(a.i + c, a.h, a.l, FALSE)

\* a > b
FGt(a, b) ==
    \/ a.i > b.i
    \/ a.i = b.i /\ a.h > b.h
    \/ a.i = b.i /\ a.h = b.h /\ a.l > b.l

(***************************************************************************)
(* detect_undertone (src/color_analyzer.py, lines 49-88).                  *)
(***************************************************************************)
WARM_THRESHOLD == 10
COOL_THRESHOLD == 5

lower_skin == <<80, 50, 40>>
upper_skin == <<255, 200, 180>>

\* Mutant of inRange: the upper bound taken as exclusive.
inRange_ExclusiveUpper(p, lowerb, upperb) ==
    IF \A c \in 1..3 : lowerb[c] <= p[c] /\ p[c] < upperb[c] THEN 255 ELSE 0

\* cv2.inRange on one pixel: 255 when every channel lies within the bounds
\* (both inclusive), else 0.
inRange(p, lowerb, upperb) ==
    IF \A c \in 1..3 : lowerb[c] <= p[c] /\ p[c] <= upperb[c] THEN 255 ELSE 0

\* img_rgb[skin_mask > 0]: the selected pixels, in row-major order.
RECURSIVE SelectSkin(_)
SelectSkin(img) ==
    IF img = <<>> THEN <<>>
    ELSE LET rest == SelectSkin(Tail(img))
         IN  IF inRange(Head(img), lower_skin, upper_skin) > 0
             THEN <<Head(img)>> \o rest
             ELSE rest

RECURSIVE ColumnSum(_, _)
ColumnSum(pixels, c) ==
    IF pixels = <<>> THEN 0 ELSE Head(pixels)[c] + ColumnSum(Tail(pixels), c)

\* np.mean(pixels[:, c - 1]) on a non-empty selection.
Mean(pixels, c) == FDiv(ColumnSum(pixels, c), Len(pixels))

Averages(pixels) ==
    [r |-> Mean(pixels, 1), g |-> Mean(pixels, 2), b |-> Mean(pixels, 3)]

\* Mutant of CoolMargin: the operands of line 85 swapped.
CoolMargin_OperandsSwapped(a) == FGt(a.r, FAdd(a.b, COOL_THRESHOLD))

WarmMargin(a)   == FGt(a.r, FAdd(a.b, WARM_THRESHOLD))     \* line 82
RedOverGreen(a) == FGt(a.r, a.g)                           \* line 83
CoolMargin(a)   == FGt(a.b, FAdd(a.r, COOL_THRESHOLD))     \* line 85

\* Lines 82-88: the if / if / elif ladder on the three averages.
Ladder(a) ==
    IF WarmMargin(a)
    THEN IF RedOverGreen(a) THEN "warm" ELSE "neutral"
    ELSE IF CoolMargin(a) THEN "cool" ELSE "neutral"

\* cv2.inRange rejects an array without elements (CV_Assert(!_src.empty())).
InRangeRaises(img) == Len(img) = 0

\* The whole call: the undertone, or "raised" when cv2.inRange raises.
detect_undertone(img) ==
    IF InRangeRaises(img) THEN "raised"
    ELSE LET skin == SelectSkin(img)
         IN  IF Len(skin) = 0 THEN "neutral" ELSE Ladder(Averages(skin))

(***************************************************************************)
(* Inputs of SpecClassify: grids of at most MaxPixels pixels drawn from    *)
(* SamplePixels.  The samples sit on both sides of every bound of the skin *)
(* range and of both margins, and include sets whose averages tie with a   *)
(* margin only after binary64 rounding.                                    *)
(***************************************************************************)
SamplePixels ==
    { <<80, 50, 40>>,   <<79, 50, 40>>,   <<80, 49, 40>>,   <<80, 50, 39>>,
      <<255, 200, 180>>, <<255, 201, 180>>, <<255, 200, 181>>,
      <<200, 100, 50>>, <<100, 120, 150>>, <<150, 140, 145>>,
      <<150, 160, 100>>, <<120, 100, 128>>,
      <<128, 100, 118>>, <<129, 100, 119>>,
      <<123, 100, 128>>, <<124, 100, 129>> }

Grids == UNION { [1..n -> SamplePixels] : n \in 0..MaxPixels }

IdleClassify ==
    /\ img_rgb = <<>>
    /\ dpc = "idle"
    /\ skin_pixels = NoValue
    /\ avg = NoAverages
    /\ cool_tested = FALSE
    /\ ret = NoValue

(***************************************************************************)
(* detect_undertone, statement by statement.                               *)
(***************************************************************************)
\* Lines 62-69: the mask and the selection; cv2.inRange raises on no pixels.
DU_InRange ==
    /\ dpc = "inRange"
    /\ IF InRangeRaises(img_rgb)
       THEN /\ ret' = "raised"
            /\ dpc' = "done"
            /\ UNCHANGED skin_pixels
       ELSE /\ skin_pixels' = SelectSkin(img_rgb)
            /\ dpc' = "len"
            /\ UNCHANGED ret
    /\ UNCHANGED <<img_rgb, avg, cool_tested, lookupVars, handlerVars>>

\* Lines 71-72.
DU_LenCheck ==
    /\ dpc = "len"
    /\ IF Len(skin_pixels) = 0
       THEN ret' = "neutral" /\ dpc' = "done"
       ELSE dpc' = "mean" /\ UNCHANGED ret
    /\ UNCHANGED <<img_rgb, skin_pixels, avg, cool_tested, lookupVars, handlerVars>>

\* Lines 75-77.
DU_Mean ==
    /\ dpc = "mean"
    /\ avg' = Averages(skin_pixels)
    /\ dpc' = "if_warm"
    /\ UNCHANGED <<img_rgb, skin_pixels, cool_tested, ret, lookupVars, handlerVars>>

\* Line 82: the outer if; its elif is line 85.
DU_IfWarm ==
    /\ dpc = "if_warm"
    /\ dpc' = IF WarmMargin(avg) THEN "if_green" ELSE "elif_cool"
    /\ UNCHANGED <<img_rgb, skin_pixels, avg, cool_tested, ret, lookupVars, handlerVars>>

\* Lines 83-84: the inner if; when it fails control leaves the whole
\* if/elif statement and reaches line 88.
DU_IfGreen ==
    /\ dpc = "if_green"
    /\ ret' = IF RedOverGreen(avg) THEN "warm" ELSE "neutral"
    /\ dpc' = "done"
    /\ UNCHANGED <<img_rgb, skin_pixels, avg, cool_tested, lookupVars, handlerVars>>

\* Lines 85-86, and line 88 when the test fails.
DU_ElifCool ==
    /\ dpc = "elif_cool"
    /\ cool_tested' = TRUE
    /\ ret' = IF CoolMargin(avg) THEN "cool" ELSE "neutral"
    /\ dpc' = "done"
    /\ UNCHANGED <<img_rgb, skin_pixels, avg, lookupVars, handlerVars>>

(***************************************************************************)
(* The lookup tables (src/color_analyzer.py, lines 91-251).  A Python dict *)
(* is a function; d.get(k, default) is DictGet.                            *)
(***************************************************************************)
EmptyDict == [k \in {} |-> k]

DictGet(d, k, default) == IF k \in DOMAIN d THEN d[k] ELSE default

palettes ==
  [
    warm |-> [
        subtle |-> <<
            [name |-> "Warm Beige", hex |-> "#D4A574"],
            [name |-> "Olive Green", hex |-> "#808000"],
            [name |-> "Terracotta", hex |-> "#E2725B"],
            [name |-> "Warm Brown", hex |-> "#8B4513"],
            [name |-> "Peach", hex |-> "#FFDAB9"],
            [name |-> "Coral", hex |-> "#FF7F50"] >>,
        bold |-> <<
            [name |-> "Burnt Orange", hex |-> "#CC5500"],
            [name |-> "Golden Yellow", hex |-> "#FFD700"],
            [name |-> "Rich Red", hex |-> "#DC143C"],
            [name |-> "Forest Green", hex |-> "#228B22"],
            [name |-> "Rust", hex |-> "#B7410E"],
            [name |-> "Amber", hex |-> "#FFBF00"] >> ],
    cool |-> [
        subtle |-> <<
            [name |-> "Soft Pink", hex |-> "#FFB6C1"],
            [name |-> "Powder Blue", hex |-> "#B0E0E6"],
            [name |-> "Lavender", hex |-> "#E6E6FA"],
            [name |-> "Cool Gray", hex |-> "#A9A9A9"],
            [name |-> "Mint", hex |-> "#98FF98"],
            [name |-> "Silver", hex |-> "#C0C0C0"] >>,
        bold |-> <<
            [name |-> "Royal Blue", hex |-> "#4169E1"],
            [name |-> "Magenta", hex |-> "#FF00FF"],
            [name |-> "Purple", hex |-> "#800080"],
            [name |-> "Emerald", hex |-> "#50C878"],
            [name |-> "Fuchsia", hex |-> "#FF00FF"],
            [name |-> "Navy", hex |-> "#000080"] >> ],
    neutral |-> [
        subtle |-> <<
            [name |-> "Soft Taupe", hex |-> "#B38B6D"],
            [name |-> "Sage", hex |-> "#9DC183"],
            [name |-> "Dusty Rose", hex |-> "#DCAE96"],
            [name |-> "Warm Gray", hex |-> "#928E85"],
            [name |-> "Cream", hex |-> "#FFFDD0"],
            [name |-> "Mauve", hex |-> "#E0B0FF"] >>,
        bold |-> <<
            [name |-> "Teal", hex |-> "#008080"],
            [name |-> "Burgundy", hex |-> "#800020"],
            [name |-> "Deep Purple", hex |-> "#6A0DAD"],
            [name |-> "Olive", hex |-> "#808000"],
            [name |-> "Crimson", hex |-> "#DC143C"],
            [name |-> "Jade", hex |-> "#00A86B"] >> ] ]

suggestions ==
  [
    warm |-> [
        casual |-> [
            subtle |-> <<
                "Olive green t-shirt with beige chinos",
                "Terracotta sweater with brown jeans",
                "Peach blouse with warm brown pants" >>,
            bold |-> <<
                "Burnt orange hoodie with dark jeans",
                "Golden yellow shirt with rust-colored jacket",
                "Rich red top with forest green cardigan" >> ],
        professional |-> [
            subtle |-> <<
                "Warm beige blazer with olive dress pants",
                "Terracotta button-up with brown suit",
                "Peach blouse with neutral skirt and warm brown accessories" >>,
            bold |-> <<
                "Golden yellow blouse with navy suit",
                "Burnt orange dress shirt with charcoal blazer",
                "Rich red suit jacket with amber accessories" >> ] ],
    cool |-> [
        casual |-> [
            subtle |-> <<
                "Powder blue t-shirt with cool gray jeans",
                "Lavender sweater with silver accessories",
                "Soft pink top with mint green cardigan" >>,
            bold |-> <<
                "Royal blue hoodie with black jeans",
                "Magenta shirt with purple jacket",
                "Emerald green top with navy pants" >> ],
        professional |-> [
            subtle |-> <<
                "Powder blue blouse with cool gray suit",
                "Lavender dress shirt with silver accessories",
                "Soft pink blazer with navy skirt" >>,
            bold |-> <<
                "Royal blue suit with white shirt",
                "Purple dress with magenta accessories",
                "Emerald blazer with navy dress pants" >> ] ],
    neutral |-> [
        casual |-> [
            subtle |-> <<
                "Soft taupe sweater with sage green pants",
                "Dusty rose top with warm gray jeans",
                "Cream blouse with mauve cardigan" >>,
            bold |-> <<
                "Teal shirt with burgundy jacket",
                "Deep purple top with olive pants",
                "Jade green sweater with crimson accessories" >> ],
        professional |-> [
            subtle |-> <<
                "Soft taupe suit with cream blouse",
                "Sage blazer with dusty rose accessories",
                "Warm gray suit with mauve shirt" >>,
            bold |-> <<
                "Teal blazer with burgundy dress pants",
                "Deep purple suit with jade accessories",
                "Olive suit with crimson blouse" >> ] ] ]

\* The default of line 247.
DefaultOutfits ==
    << "Classic white shirt with dark pants",
       "Navy blazer with neutral bottoms",
       "Black dress with colorful accessories" >>

\* Mutant of get_color_palette: an unknown undertone falls back to the
\* neutral palettes before the style is looked up.
get_color_palette_UndertoneDefault(undertone, style) ==
    DictGet(DictGet(palettes, undertone, palettes["neutral"]), style,
            palettes["neutral"]["subtle"])

\* Mutant of get_outfit_suggestions: the keys looked up in parameter order,
\* style before formality.
get_outfit_suggestions_KeysSwapped(undertone, style, formality) ==
    DictGet(DictGet(DictGet(suggestions, undertone, EmptyDict), style, EmptyDict),
            formality, DefaultOutfits)

\* Line 156.
get_color_palette(undertone, style) ==
    DictGet(DictGet(palettes, undertone, EmptyDict), style, palettes["neutral"]["subtle"])

\* Lines 247-251.
get_outfit_suggestions(undertone, style, formality) ==
    DictGet(DictGet(DictGet(suggestions, undertone, EmptyDict), formality, EmptyDict),
            style, DefaultOutfits)

Undertones  == {"warm", "cool", "neutral"}
Styles      == {"subtle", "bold"}
Formalities == {"casual", "professional"}

\* Arguments of the lookups in SpecLookup: every known value and one unknown.
LookupUndertones  == Undertones \cup {"olive"}
LookupStyles      == Styles \cup {"loud"}
LookupFormalities == Formalities \cup {"gala"}

IdleLookup ==
    /\ lk_undertone = NoValue
    /\ lk_style = NoValue
    /\ lk_formality = NoValue
    /\ lk_colors = NoValue
    /\ lk_outfits = NoValue

LK_Palette ==
    /\ lk_undertone # NoValue
    /\ lk_colors = NoValue
    /\ lk_colors' = get_color_palette(lk_undertone, lk_style)
    /\ UNCHANGED <<lk_undertone, lk_style, lk_formality, lk_outfits,
                   classifyVars, handlerVars>>

LK_Outfits ==
    /\ lk_undertone # NoValue
    /\ lk_outfits = NoValue
    /\ lk_outfits' = get_outfit_suggestions(lk_undertone, lk_style, lk_formality)
    /\ UNCHANGED <<lk_undertone, lk_style, lk_formality, lk_colors,
                   classifyVars, handlerVars>>

(***************************************************************************)
(* analyze_color (src/color_analyzer.py, lines 9-46) over the temporary    *)
(* directory.  The content of a file is [kind, rgb]: kind "image" for      *)
(* bytes that decode, with the colours of its pixels; "garbage" for bytes  *)
(* that do not; "empty" for no bytes.                                      *)
(***************************************************************************)
Image(rgb)  == [kind |-> "image", rgb |-> rgb]
Garbage     == [kind |-> "garbage", rgb |-> <<>>]
EmptyBytes  == [kind |-> "empty", rgb |-> <<>>]

Reverse3(p) == <<p[3], p[2], p[1]>>

\* cv2.imread: the pixels in B, G, R order, or None (ok = FALSE) when the
\* file is missing or does not decode.
imread(fs, path) ==
    IF path \in DOMAIN fs /\ fs[path].data.kind = "image"
    THEN [ok |-> TRUE,
          pixels |-> [k \in 1..Len(fs[path].data.rgb) |-> Reverse3(fs[path].data.rgb[k])]]
    ELSE [ok |-> FALSE, pixels |-> <<>>]

\* cv2.cvtColor(img, cv2.COLOR_BGR2RGB)
cvtColor_BGR2RGB(img) == [k \in 1..Len(img) |-> Reverse3(img[k])]

Returned(u, c, o) ==
    [kind |-> "return", type |-> "", msg |-> "", classified |-> TRUE,
     undertone |-> u, colors |-> c, outfits |-> o]
Raised(type, msg, classified) ==
    [kind |-> "raise", type |-> type, msg |-> msg, classified |-> classified,
     undertone |-> "", colors |-> <<>>, outfits |-> <<>>]

\* The outcome of the call: the returned dictionary or the exception raised;
\* classified tells whether detect_undertone was invoked.
analyze_color(fs, image_path, style, formality) ==
    LET img == imread(fs, image_path)
    IN  IF ~img.ok
        THEN Raised("ValueError", "Could not load image", FALSE)
        ELSE LET undertone == detect_undertone(cvtColor_BGR2RGB(img.pixels))
             IN  IF undertone = "raised"
                 THEN Raised("cv2.error", "inRange", TRUE)
                 ELSE Returned(undertone,
                               get_color_palette(undertone, style),
                               get_outfit_suggestions(undertone, style, formality))

(***************************************************************************)
(* The /analyze handler (src/app.py, lines 37-84).                         *)
(***************************************************************************)
Reqs      == 1..NumReqs
TempNames == 1..NumReqs     \* names NamedTemporaryFile may draw; NoName is none
NoName    == 0

Response(status, detail, u, c, o) ==
    [status |-> status, detail |-> detail, undertone |-> u, colors |-> c, outfits |-> o]
NoResponse == Response(0, <<>>, "", <<>>, <<>>)
HTTPException(status, detail) == Response(status, detail, "", <<>>, <<>>)

\* An exception that leaves analyze() uncaught: the framework's plain 500.
Unhandled == HTTPException(500, <<"Internal Server Error">>)

\* Mutant of ValidationError: the formality is not validated.
ValidationError_StyleOnly(style, formality) ==
    IF style \notin {"subtle", "bold"}
    THEN <<"Style must be 'subtle' or 'bold'">>
    ELSE <<>>

\* Lines 55-59: the detail of the 400 raised, or <<>> when both fields pass.
ValidationError(style, formality) ==
    IF style \notin {"subtle", "bold"}
    THEN <<"Style must be 'subtle' or 'bold'">>
    ELSE IF formality \notin {"casual", "professional"}
         THEN <<"Formality must be 'casual' or 'professional'">>
         ELSE <<>>

\* Mutant of TryExcept: no except clause for ValueError.
TryExcept_NoValueErrorClause(out) ==
    IF out.kind = "return"
    THEN Response(200, <<>>, out.undertone, out.colors, out.outfits)
    ELSE HTTPException(500, <<"An error occurred during analysis: ", out.msg>>)

\* Lines 69-80: the response for what analyze_color returned or raised.
TryExcept(out) ==
    IF out.kind = "return"
    THEN Response(200, <<>>, out.undertone, out.colors, out.outfits)
    ELSE IF out.type = "ValueError"
         THEN HTTPException(400, <<out.msg>>)
         ELSE HTTPException(500, <<"An error occurred during analysis: ", out.msg>>)

\* Mutant of FreshNames: the name is not checked against the existing files.
FreshNames_AnyName(fs) == TempNames

\* Names NamedTemporaryFile can return: it opens with O_EXCL and draws again
\* when the name exists.
FreshNames(fs) == TempNames \ DOMAIN fs

NoFault == [at |-> "none", msg |-> ""]
\* Messages of exceptions analyze_color can raise besides its ValueError.
ErrorMessages == {"cv2.error: pixels <= CV_IO_MAX_IMAGE_PIXELS", "MemoryError"}

WarmUpload == Image(<< <<200, 100, 50>> >>)
CoolUpload == Image(<< <<100, 120, 150>> >>)

Request(style, formality, upload) ==
    [style |-> style, formality |-> formality, upload |-> upload]

\* What a request of Spec may carry: every style, formality and upload, and
\* every way through the validation of lines 55-59.
RequestInputs ==
    { Request("subtle", "casual", WarmUpload),
      Request("bold", "professional", CoolUpload),
      Request("bold", "casual", Garbage),
      Request("loud", "casual", WarmUpload),
      Request("subtle", "gala", CoolUpload) }

\* trace[r]: whether r read its upload, the names it created, whether it
\* called analyze_color, whether that call reached detect_undertone, and the
\* creators of the files it read and unlinked.
NoTrace ==
    [read_upload |-> FALSE, created |-> {}, analyze_called |-> FALSE,
     classified |-> FALSE, imread |-> {}, unlinked |-> {}]

IdleHandler ==
    /\ req = <<>>
    /\ pc = <<>>
    /\ files = <<>>
    /\ temp_file = <<>>
    /\ temp_path = <<>>
    /\ content = <<>>
    /\ pending = <<>>
    /\ resp = <<>>
    /\ fault = <<>>
    /\ trace = <<>>

WriteFile(fs, name, owner, data) ==
    [n \in DOMAIN fs \cup {name} |->
        IF n = name THEN [owner |-> owner, data |-> data] ELSE fs[n]]
Unlink(fs, name) == [n \in DOMAIN fs \ {name} |-> fs[n]]
\* The request that created the file of that name, as a set; {} when absent.
OwnerOf(fs, name) == IF name \in DOMAIN fs THEN {fs[name].owner} ELSE {}

\* Lines 55-59.
Validate(r) ==
    /\ pc[r] = "validate"
    /\ IF ValidationError(req[r].style, req[r].formality) # <<>>
       THEN /\ resp' = [resp EXCEPT ![r] =
                    HTTPException(400, ValidationError(req[r].style, req[r].formality))]
            /\ pc' = [pc EXCEPT ![r] = "done"]
       ELSE /\ pc' = [pc EXCEPT ![r] = "open"]
            /\ UNCHANGED resp
    /\ UNCHANGED <<req, files, temp_file, temp_path, content, pending, fault, trace,
                   classifyVars, lookupVars>>

\* Line 62: NamedTemporaryFile(delete=False) creates an empty file.
OpenTemp(r) ==
    /\ pc[r] = "open"
    /\ \E name \in FreshNames(files) :
          /\ files' = WriteFile(files, name, r, EmptyBytes)
          /\ temp_file' = [temp_file EXCEPT ![r] = name]
          /\ trace' = [trace EXCEPT ![r].created = @ \cup {name}]
    /\ pc' = [pc EXCEPT ![r] = "read"]
    /\ UNCHANGED <<req, temp_path, content, pending, resp, fault,
                   classifyVars, lookupVars>>

\* Line 63: content = await image.read()
ReadUpload(r) ==
    /\ pc[r] = "read"
    /\ content' = [content EXCEPT ![r] = req[r].upload]
    /\ trace' = [trace EXCEPT ![r].read_upload = TRUE]
    /\ pc' = [pc EXCEPT ![r] = "write"]
    /\ UNCHANGED <<req, files, temp_file, temp_path, pending, resp, fault,
                   classifyVars, lookupVars>>

\* Line 63 raises (the client went away, the spooled upload cannot be read):
\* the with block closes the file, which delete=False keeps, and the
\* exception leaves analyze() before the try of line 67 is entered.
ReadUploadRaises(r) ==
    /\ pc[r] = "read"
    /\ fault' = [fault EXCEPT ![r] = [at |-> "read", msg |-> ""]]
    /\ resp' = [resp EXCEPT ![r] = Unhandled]
    /\ pc' = [pc EXCEPT ![r] = "done"]
    /\ UNCHANGED <<req, files, temp_file, temp_path, content, pending, trace,
                   classifyVars, lookupVars>>

\* Lines 64-65 and the end of the with block, which flushes and closes.
WriteTemp(r) ==
    /\ pc[r] = "write"
    /\ files' = WriteFile(files, temp_file[r], r, content[r])
    /\ temp_path' = [temp_path EXCEPT ![r] = temp_file[r]]
    /\ pc' = [pc EXCEPT ![r] = "analyze"]
    /\ UNCHANGED <<req, temp_file, content, pending, resp, fault, trace,
                   classifyVars, lookupVars>>

\* Line 64 raises (no space left on the device): as for ReadUploadRaises.
WriteTempRaises(r) ==
    /\ pc[r] = "write"
    /\ fault' = [fault EXCEPT ![r] = [at |-> "write", msg |-> ""]]
    /\ resp' = [resp EXCEPT ![r] = Unhandled]
    /\ pc' = [pc EXCEPT ![r] = "done"]
    /\ UNCHANGED <<req, files, temp_file, temp_path, content, pending, trace,
                   classifyVars, lookupVars>>

\* Lines 67-80: analyze_color on temp_path, and the response chosen for it.
Analyze(r) ==
    /\ pc[r] = "analyze"
    /\ LET out == analyze_color(files, temp_path[r], req[r].style, req[r].formality)
       IN  /\ pending' = [pending EXCEPT ![r] = TryExcept(out)]
           /\ trace' = [trace EXCEPT ![r].analyze_called = TRUE,
                                     ![r].classified = out.classified,
                                     ![r].imread = @ \cup OwnerOf(files, temp_path[r])]
    /\ pc' = [pc EXCEPT ![r] = "finally"]
    /\ UNCHANGED <<req, files, temp_file, temp_path, content, resp, fault,
                   classifyVars, lookupVars>>

\* Lines 67-80 when analyze_color raises something else than its ValueError.
AnalyzeRaises(r) ==
    /\ pc[r] = "analyze"
    /\ \E msg \in ErrorMessages :
          /\ fault' = [fault EXCEPT ![r] = [at |-> "analysis", msg |-> msg]]
          /\ pending' = [pending EXCEPT ![r] = TryExcept(Raised("Exception", msg, FALSE))]
    /\ trace' = [trace EXCEPT ![r].analyze_called = TRUE]
    /\ pc' = [pc EXCEPT ![r] = "finally"]
    /\ UNCHANGED <<req, files, temp_file, temp_path, content, resp,
                   classifyVars, lookupVars>>

\* Lines 81-84, then the response leaves.
Finally(r) ==
    /\ pc[r] = "finally"
    /\ IF temp_path[r] \in DOMAIN files
       THEN /\ files' = Unlink(files, temp_path[r])
            /\ trace' = [trace EXCEPT ![r].unlinked = @ \cup OwnerOf(files, temp_path[r])]
       ELSE UNCHANGED <<files, trace>>
    /\ resp' = [resp EXCEPT ![r] = pending[r]]
    /\ pc' = [pc EXCEPT ![r] = "done"]
    /\ UNCHANGED <<req, temp_file, temp_path, content, pending, fault,
                   classifyVars, lookupVars>>

(***************************************************************************)
(* The specifications.                                                     *)
(***************************************************************************)
InitClassify ==
    /\ img_rgb \in Grids
    /\ dpc = "inRange"
    /\ skin_pixels = NoValue
    /\ avg = NoAverages
    /\ cool_tested = FALSE
    /\ ret = NoValue
    /\ IdleLookup
    /\ IdleHandler

NextClassify ==
    \/ DU_InRange
    \/ DU_LenCheck
    \/ DU_Mean
    \/ DU_IfWarm
    \/ DU_IfGreen
    \/ DU_ElifCool

SpecClassify == InitClassify /\ [][NextClassify]_vars

InitLookup ==
    /\ lk_undertone \in LookupUndertones
    /\ lk_style \in LookupStyles
    /\ lk_formality \in LookupFormalities
    /\ lk_colors = NoValue
    /\ lk_outfits = NoValue
    /\ IdleClassify
    /\ IdleHandler

NextLookup == LK_Palette \/ LK_Outfits

SpecLookup == InitLookup /\ [][NextLookup]_vars

Init ==
    /\ req \in [Reqs -> RequestInputs]
    /\ pc = [r \in Reqs |-> "validate"]
    /\ files = <<>>
    /\ temp_file = [r \in Reqs |-> NoName]
    /\ temp_path = [r \in Reqs |-> NoName]
    /\ content = [r \in Reqs |-> EmptyBytes]
    /\ pending = [r \in Reqs |-> NoResponse]
    /\ resp = [r \in Reqs |-> NoResponse]
    /\ fault = [r \in Reqs |-> NoFault]
    /\ trace = [r \in Reqs |-> NoTrace]
    /\ IdleClassify
    /\ IdleLookup

Next ==
    \E r \in Reqs :
        \/ Validate(r)
        \/ OpenTemp(r)
        \/ ReadUpload(r)
        \/ ReadUploadRaises(r)
        \/ WriteTemp(r)
        \/ WriteTempRaises(r)
        \/ Analyze(r)
        \/ AnalyzeRaises(r)
        \/ Finally(r)

Spec == Init /\ [][Next]_vars

(***************************************************************************)
(* The claims.                                                             *)
(***************************************************************************)
Range(f) == { f[k] : k \in DOMAIN f }

InSkinRange(p) ==
    /\ 80 <= p[1] /\ p[1] <= 255
    /\ 50 <= p[2] /\ p[2] <= 200
    /\ 40 <= p[3] /\ p[3] <= 180

\* The rule as the specification words it, on the binary64 means of a
\* non-empty selection.
StatedRule(sel) ==
    LET mR == Mean(sel, 1)
        mG == Mean(sel, 2)
        mB == Mean(sel, 3)
    IN  IF FGt(mR, FAdd(mB, 10)) /\ FGt(mR, mG) THEN "warm"
        ELSE IF FGt(mB, FAdd(mR, 5)) THEN "cool"
        ELSE "neutral"

\* C1: on every grid with pixels, detect_undertone selects exactly the pixels
\* with 80<=R<=255, 50<=G<=200, 40<=B<=180 and, when there are any, returns
\* warm if mean(R) > mean(B)+10 and mean(R) > mean(G), else cool if
\* mean(B) > mean(R)+5, else neutral, the means taken over the selection.
C1_SelectionAndRule ==
    (dpc = "done" /\ img_rgb # <<>>) =>
        /\ skin_pixels = SelectSeq(img_rgb, InSkinRange)
        /\ skin_pixels # <<>> => ret = StatedRule(SelectSeq(img_rgb, InSkinRange))

\* A finished call that dropped a pixel, kept several and found them warm.
C1_Witness ==
    /\ dpc = "done"
    /\ ret = "warm"
    /\ Len(skin_pixels) >= 2
    /\ Len(skin_pixels) < Len(img_rgb)

\* C2: on every grid without a pixel in the skin range, the grid without any
\* pixel included, detect_undertone returns neutral, computes no mean and
\* does not raise.
C2_NoSkinIsNeutral ==
    (dpc = "done" /\ \A k \in 1..Len(img_rgb) : ~InSkinRange(img_rgb[k])) =>
        /\ ret = "neutral"
        /\ avg = NoAverages

\* The rule with the cool check evaluated before the warm check.
CoolFirst(a) ==
    IF CoolMargin(a) THEN "cool"
    ELSE IF WarmMargin(a) /\ RedOverGreen(a) THEN "warm"
    ELSE "neutral"

\* C10, as claimed: some set of qualifying pixels gets a different undertone
\* when the cool check is evaluated before the warm check, and a set with
\* mean(R) > mean(B)+10 but mean(R) <= mean(G) gets the answer of the
\* cool/neutral check.
C10_OrderDependent ==
    /\ (dpc = "done" /\ avg # NoAverages /\ WarmMargin(avg) /\ ~RedOverGreen(avg)) =>
            ret = (IF CoolMargin(avg) THEN "cool" ELSE "neutral")
    /\ \E g \in Grids :
            /\ SelectSkin(g) # <<>>
            /\ CoolFirst(Averages(SelectSkin(g))) # detect_undertone(g)

\* C10, amended: the order of the two checks does not matter. On every set of
\* qualifying pixels the warm and the cool condition exclude each other and
\* the cool check evaluated first gives the undertone the code returns; a set
\* with mean(R) > mean(B)+10 but mean(R) <= mean(G) is returned as neutral
\* without the cool test being evaluated.
C10_OrderIndependent ==
    (dpc = "done" /\ avg # NoAverages) =>
        /\ ret = CoolFirst(avg)
        /\ ~(WarmMargin(avg) /\ CoolMargin(avg))
        /\ (WarmMargin(avg) /\ ~RedOverGreen(avg)) => (ret = "neutral" /\ ~cool_tested)

\* A finished call whose averages pass the margin of line 82 and fail line 83.
C10_Witness ==
    /\ dpc = "done"
    /\ avg # NoAverages
    /\ WarmMargin(avg)
    /\ ~RedOverGreen(avg)

\* C8: get_color_palette returns the table's sequence for a known undertone
\* with a known style and the neutral/subtle palette for every other pair;
\* the result always has 6 entries, and the first of warm/subtle is
\* Warm Beige #D4A574.
C8_Palette ==
    lk_colors # NoValue =>
        /\ lk_colors = IF lk_undertone \in Undertones /\ lk_style \in Styles
                       THEN palettes[lk_undertone][lk_style]
                       ELSE palettes["neutral"]["subtle"]
        /\ Len(lk_colors) = 6
        /\ (lk_undertone = "warm" /\ lk_style = "subtle") =>
                lk_colors[1] = [name |-> "Warm Beige", hex |-> "#D4A574"]
        /\ (lk_undertone \notin Undertones \/ lk_style \notin Styles) =>
                lk_colors[1] = [name |-> "Soft Taupe", hex |-> "#B38B6D"]

\* The palette of a known undertone with an unknown style.
C8_Witness ==
    /\ lk_colors # NoValue
    /\ lk_undertone = "warm"
    /\ lk_style = "loud"

\* C9: get_outfit_suggestions returns the generic three-item list when any of
\* undertone, formality, style is unknown, and the table's own list, which is
\* never the generic one, when all three are known.
C9_Outfits ==
    lk_outfits # NoValue =>
        IF lk_undertone \in Undertones /\ lk_formality \in Formalities /\ lk_style \in Styles
        THEN /\ lk_outfits = suggestions[lk_undertone][lk_formality][lk_style]
             /\ lk_outfits # DefaultOutfits
        ELSE /\ lk_outfits = << "Classic white shirt with dark pants",
                                "Navy blazer with neutral bottoms",
                                "Black dress with colorful accessories" >>
             /\ Len(lk_outfits) = 3

\* The outfits of a known undertone and style with an unknown formality.
C9_Witness ==
    /\ lk_outfits # NoValue
    /\ lk_undertone = "cool"
    /\ lk_style = "bold"
    /\ lk_formality = "gala"

Invalid(r) == req[r].style \notin Styles \/ req[r].formality \notin Formalities
Owned(r)   == { n \in DOMAIN files : files[n].owner = r }

\* C3: a request's upload is fully read before its classification starts, and
\* the temporary file created for it is gone when the request has finished,
\* whichever way it finished.
C3_ReadThenDeleted ==
    \A r \in Reqs :
        /\ trace[r].classified => (trace[r].read_upload /\ content[r] = req[r].upload)
        /\ pc[r] = "done" => Owned(r) = {}

\* C4: a request with a style outside {subtle, bold} or a formality outside
\* {casual, professional} ends with a 400 and never reads its upload, creates
\* a temporary file or calls analyze_color or detect_undertone.
C4_InvalidRejected ==
    \A r \in Reqs :
        Invalid(r) =>
            /\ pc[r] \in {"validate", "done"}
            /\ pc[r] = "done" => resp[r].status = 400
            /\ trace[r] = NoTrace
            /\ temp_file[r] = NoName
            /\ Owned(r) = {}
            /\ content[r] = EmptyBytes

\* A request with a valid style and an invalid formality that has finished
\* while another request holds a temporary file.
C4_Witness ==
    \E r, q \in Reqs :
        /\ req[r].style \in Styles
        /\ req[r].formality \notin Formalities
        /\ pc[r] = "done"
        /\ pc[q] = "analyze"

\* C5: when the uploaded bytes do not decode, analyze_color raises its
\* "Could not load image" error without invoking detect_undertone, and the
\* handler answers 400 with that message, never 500 and never a result.
C5_DecodeError ==
    \A r \in Reqs :
        (trace[r].analyze_called /\ fault[r] = NoFault /\ req[r].upload.kind # "image") =>
            /\ ~trace[r].classified
            /\ pending[r] = HTTPException(400, <<"Could not load image">>)
            /\ pc[r] = "done" => resp[r] = HTTPException(400, <<"Could not load image">>)

\* A finished request whose upload did not decode.
C5_Witness ==
    \E r \in Reqs :
        /\ pc[r] = "done"
        /\ req[r].upload = Garbage
        /\ trace[r].analyze_called
        /\ resp[r].status = 400

\* C6: a failure that is neither a decode error nor a validation error is
\* answered with a 500 whose body does not contain the exception's message.
C6_GenericInternalError ==
    \A r \in Reqs :
        (pc[r] = "done" /\ fault[r] # NoFault) =>
            /\ resp[r].status = 500
            /\ \A m \in ErrorMessages : m \notin Range(resp[r].detail)

\* The response of request r running alone, given its inputs and the failure
\* it met.
Solo(r) ==
    IF ValidationError(req[r].style, req[r].formality) # <<>>
    THEN HTTPException(400, ValidationError(req[r].style, req[r].formality))
    ELSE IF fault[r].at \in {"read", "write"} THEN Unhandled
    ELSE IF fault[r].at = "analysis"
         THEN TryExcept(Raised("Exception", fault[r].msg, FALSE))
         ELSE TryExcept(analyze_color(WriteFile(<<>>, 1, r, req[r].upload), 1,
                                      req[r].style, req[r].formality))

Holding(r) == pc[r] \in {"read", "write", "analyze", "finally"}

\* C7: under every interleaving each request gets the response it would get
\* alone, requests holding a temporary file at the same time hold different
\* files, and a request reads and deletes only the file it created.
C7_NoInterference ==
    /\ \A r \in Reqs : pc[r] = "done" => resp[r] = Solo(r)
    /\ \A r, q \in Reqs : (r # q /\ Holding(r) /\ Holding(q)) => temp_file[r] # temp_file[q]
    /\ \A r \in Reqs : Holding(r) => Owned(r) = {temp_file[r]}
    /\ \A r \in Reqs : trace[r].imread \subseteq {r} /\ trace[r].unlinked \subseteq {r}

\* Two requests with different uploads in the try block at once, one of them
\* already classified.
C7_Witness ==
    \E r, q \in Reqs :
        /\ r # q
        /\ pc[r] = "finally"
        /\ pending[r].undertone = "warm"
        /\ pc[q] = "analyze"
        /\ req[q].upload = CoolUpload

=============================================================================
